---- MODULE Spec2Model ----
(***************************************************************************)
(* Model of the two command-line tools of the repository:                  *)
(*   generate_file.py  - the PKI generator (prompts, SAN configs, openssl) *)
(*   serve_file.py     - the password-protected file server                *)
(* Strings the code inspects character by character (the replies typed at  *)
(* the prompt, --client-alt-names, DNS names, passwords) are sequences of  *)
(* one-character strings.  A file-system path is <<directory, filename>>.  *)
(***************************************************************************)
EXTENDS Naturals, Sequences, FiniteSets, TLC

VARIABLES
    args,          \* generate_file.py: the parsed command line
    fs,            \* the file system: path -> content
    start_fs,      \* the file system as it was when the current run began
    keep_map,      \* main(): keep_map, path -> BOOLEAN, filled by the prompt loop
    pc,            \* main(): position in the script
    idx,           \* main(): index of the prompt loop in files (1-based)
    reply,         \* ask_clean(): the last line read by input()
    bad_replies,   \* ask_clean(): unrecognised replies at the current prompt
    children,      \* subprocesses spawned by run() and not yet waited for
    exit_status,   \* <<>> while the process lives, <<code>> once it ended
    trace,         \* what the current run has done so far, in order
    run_no,        \* "first" or "second" invocation of the generator
    serve_args,    \* serve_file.py: the parsed command line
    served_exists, \* serve_file.py: whether args.file exists on disk now
    requests,      \* serve_file.py: number of form submissions handled
    request,       \* serve_file.py: the last submission and what the disk held
    response       \* serve_file.py: what download_file returned for it

gen_vars == <<args, fs, start_fs, keep_map, pc, idx, reply, bad_replies,
              children, exit_status, trace, run_no>>
serve_vars == <<serve_args, served_exists, requests, request, response>>
vars == <<args, fs, start_fs, keep_map, pc, idx, reply, bad_replies,
          children, exit_status, trace, run_no,
          serve_args, served_exists, requests, request, response>>

(***************************************************************************)
(* Bounds of the model.                                                    *)
(***************************************************************************)
\* longest --client-alt-names string explored by SpecSan
MaxAltLen == 4
\* most unrecognised replies typed at one prompt
MaxBadReplies == 1
\* largest exit code an openssl invocation returns
MaxExitCode == 2
\* most form submissions the file server handles
MaxRequests == 2
\* longest password configured or submitted
MaxPasswordLen == 2

(***************************************************************************)
(* Character strings.                                                      *)
(***************************************************************************)
Str(n, Alphabet) == UNION {[1..k -> Alphabet] : k \in 0..n}

Whitespace == {" ", "\t"}

\* str.lower() on the characters that occur in replies
LowerChar(ch) ==
    CASE ch = "Y" -> "y"
      [] ch = "E" -> "e"
      [] ch = "S" -> "s"
      [] ch = "N" -> "n"
      [] ch = "O" -> "o"
      [] OTHER -> ch

lower(s) == [k \in 1..Len(s) |-> LowerChar(s[k])]

RECURSIVE lstrip(_)
lstrip(s) == IF s # <<>> /\ Head(s) \in Whitespace THEN lstrip(Tail(s)) ELSE s

RECURSIVE rstrip(_)
rstrip(s) ==
    IF s # <<>> /\ s[Len(s)] \in Whitespace
    THEN rstrip(SubSeq(s, 1, Len(s) - 1))
    ELSE s

\* faulty variant: only leading whitespace is stripped
strip_left_only(s) == lstrip(s)

\* str.strip()
strip(s) == rstrip(lstrip(s))

\* str.split(","): the pieces between commas, empty pieces included
RECURSIVE split(_)
split(s) ==
    IF \A k \in 1..Len(s) : s[k] # ","
    THEN <<s>>
    ELSE LET k == CHOOSE j \in 1..Len(s) :
                      s[j] = "," /\ \A h \in 1..(j - 1) : s[h] # ","
         IN  <<SubSeq(s, 1, k - 1)>> \o split(SubSeq(s, k + 1, Len(s)))

RECURSIVE SelectNonEmptyStripped(_)
SelectNonEmptyStripped(pieces) ==
    IF pieces = <<>> THEN <<>>
    ELSE IF strip(Head(pieces)) # <<>>
         THEN <<strip(Head(pieces))>> \o SelectNonEmptyStripped(Tail(pieces))
         ELSE SelectNonEmptyStripped(Tail(pieces))

\* main(): [s.strip() for s in args.client_alt_names.split(",") if s.strip()]
client_alt_names == SelectNonEmptyStripped(split(args.client_alt_names))

(***************************************************************************)
(* Paths and file contents.                                                *)
(***************************************************************************)
Dirs == {"ca", "server", "client"}
Names == {"ca.key", "ca.crt", "ca.srl", "server.key", "server.csr",
          "server.crt", "client.key", "client.csr", "client.crt",
          "client.p12", "san.cnf"}
Paths == Dirs \X Names

\* os.path.join(dir, name)
join(dir, name) == <<dir, name>>

NoFile == [kind |-> "absent"]
exists(p) == fs[p] # NoFile

server_san_config == join(args.server_dir, "san.cnf")
client_san_config == join(args.client_dir, "san.cnf")
ca_key_path == join(args.ca_dir, args.ca_key)
ca_cert_path == join(args.ca_dir, args.ca_cert)
server_key_path == join(args.server_dir, args.server_key)
server_csr_path == join(args.server_dir, args.server_csr)
server_cert_path == join(args.server_dir, args.server_cert)
client_key_path == join(args.client_dir, args.client_key)
client_csr_path == join(args.client_dir, args.client_csr)
client_cert_path == join(args.client_dir, args.client_cert)
client_p12_path == join(args.client_dir, "client.p12")

\* main(): files, in the order of the list
files == <<ca_key_path, ca_cert_path, server_key_path, server_csr_path,
           server_cert_path, client_key_path, client_csr_path,
           client_cert_path, client_p12_path, server_san_config,
           client_san_config>>

\* faulty variant: the generation steps do not consult keep_map
keep_map_get_ignored(p) == FALSE

\* keep_map.get(path, False)
keep_map_get(p) == IF p \in DOMAIN keep_map THEN keep_map[p] ELSE FALSE

\* write_san_config(): the descriptor written for (common_name, alt_names),
\* as openssl reads it: the CN of [ req_distinguished_name ] and the names
\* of [ alt_names ], dns[i] being the name of the line "DNS.i = name"
\* (with two or more names textwrap.dedent finds no common margin and the
\* other lines keep their indentation, which openssl skips); gen is the
\* run that wrote the file
san_content(common_name, alt_names) ==
    [kind |-> "san", cn |-> common_name,
     dns |-> [i \in 1..Len(alt_names) |-> alt_names[i]], gen |-> run_no]

(***************************************************************************)
(* The prompt loop of main() and ask_clean().                              *)
(***************************************************************************)
Replies == { <<"y">>, <<"Y", "E", "S">>, <<" ", "y", "e", "s", " ">>,
             <<"n">>, <<"N", "o">>, <<>>, <<"x">>, <<"y", "e">> }

\* ask_clean(): input(...).strip().lower()
normalised(r) == lower(strip(r))

is_yes(r) == normalised(r) \in { <<"y">>, <<"y", "e", "s">> }
is_no(r) == normalised(r) \in { <<"n">>, <<"n", "o">>, <<>> }

\* an entry of trace: rc is the exit code of the subprocess, 0 where none ended
Event(ev, path, step, rc) ==
    [ev |-> ev, path |-> path, step |-> step, rc |-> rc]

\* the position after one iteration of "for f in files"
after_loop_body == IF idx = Len(files) THEN "san_server" ELSE "prompt"

\* main(): os.path.exists(f) is false, keep_map[f] = False
LoopAbsent ==
    /\ pc = "prompt"
    /\ ~exists(files[idx])
    /\ keep_map' = (files[idx] :> FALSE) @@ keep_map
    /\ idx' = idx + 1
    /\ pc' = after_loop_body
    /\ UNCHANGED serve_vars
    /\ UNCHANGED <<args, fs, start_fs, reply, bad_replies, children,
                   exit_status, trace, run_no>>

\* ask_clean(): the prompt is shown and input() returns a line
AskCleanInput ==
    /\ pc = "prompt"
    /\ exists(files[idx])
    /\ \E r \in Replies : reply' = r
    /\ pc' = "ask_clean"
    /\ UNCHANGED serve_vars
    /\ UNCHANGED <<args, fs, start_fs, keep_map, idx, bad_replies, children,
                   exit_status, trace, run_no>>

\* faulty variant: keep_map[f] = removed instead of "not removed"
AskCleanRemoved_recorded_as_kept ==
    /\ pc = "ask_clean"
    /\ is_yes(reply)
    /\ fs' = [fs EXCEPT ![files[idx]] = NoFile]
    /\ keep_map' = (files[idx] :> TRUE) @@ keep_map
    /\ trace' = Append(trace, Event("remove", files[idx], "prompt", 0))
    /\ idx' = idx + 1
    /\ pc' = after_loop_body
    /\ reply' = <<>>
    /\ bad_replies' = 0
    /\ UNCHANGED serve_vars
    /\ UNCHANGED <<args, start_fs, children, exit_status, run_no>>

\* ask_clean(): reply is y/yes and os.remove succeeds; returns True
AskCleanRemoved ==
    /\ pc = "ask_clean"
    /\ is_yes(reply)
    /\ fs' = [fs EXCEPT ![files[idx]] = NoFile]
    /\ keep_map' = (files[idx] :> FALSE) @@ keep_map
    /\ trace' = Append(trace, Event("remove", files[idx], "prompt", 0))
    /\ idx' = idx + 1
    /\ pc' = after_loop_body
    /\ reply' = <<>>
    /\ bad_replies' = 0
    /\ UNCHANGED serve_vars
    /\ UNCHANGED <<args, start_fs, children, exit_status, run_no>>

\* ask_clean(): reply is y/yes and os.remove raises
AskCleanRemoveRaises ==
    /\ pc = "ask_clean"
    /\ is_yes(reply)
    /\ pc' = "remove_raised"
    /\ UNCHANGED serve_vars
    /\ UNCHANGED <<args, fs, start_fs, keep_map, idx, reply, bad_replies,
                   children, exit_status, trace, run_no>>

\* faulty variant: the except branch returns True, as if the file were gone
AskCleanRemoveFailed_recorded_as_removed ==
    /\ pc = "remove_raised"
    /\ keep_map' = (files[idx] :> FALSE) @@ keep_map
    /\ trace' = Append(trace, Event("keep", files[idx], "prompt", 0))
    /\ idx' = idx + 1
    /\ pc' = after_loop_body
    /\ reply' = <<>>
    /\ bad_replies' = 0
    /\ UNCHANGED serve_vars
    /\ UNCHANGED <<args, fs, start_fs, children, exit_status, run_no>>

\* ask_clean(): the except branch prints "Could not remove" and returns False
AskCleanRemoveFailed ==
    /\ pc = "remove_raised"
    /\ keep_map' = (files[idx] :> TRUE) @@ keep_map
    /\ trace' = Append(trace, Event("keep", files[idx], "prompt", 0))
    /\ idx' = idx + 1
    /\ pc' = after_loop_body
    /\ reply' = <<>>
    /\ bad_replies' = 0
    /\ UNCHANGED serve_vars
    /\ UNCHANGED <<args, fs, start_fs, children, exit_status, run_no>>

\* ask_clean(): reply is n/no/empty; returns False
AskCleanKept ==
    /\ pc = "ask_clean"
    /\ ~is_yes(reply)
    /\ is_no(reply)
    /\ keep_map' = (files[idx] :> TRUE) @@ keep_map
    /\ trace' = Append(trace, Event("keep", files[idx], "prompt", 0))
    /\ idx' = idx + 1
    /\ pc' = after_loop_body
    /\ reply' = <<>>
    /\ bad_replies' = 0
    /\ UNCHANGED serve_vars
    /\ UNCHANGED <<args, fs, start_fs, children, exit_status, run_no>>

\* ask_clean(): any other reply; "Please answer y or n." and the loop repeats
AskCleanAgain ==
    /\ pc = "ask_clean"
    /\ ~is_yes(reply)
    /\ ~is_no(reply)
    /\ bad_replies < MaxBadReplies
    /\ bad_replies' = bad_replies + 1
    /\ reply' = <<>>
    /\ pc' = "prompt"
    /\ UNCHANGED serve_vars
    /\ UNCHANGED <<args, fs, start_fs, keep_map, idx, children, exit_status,
                   trace, run_no>>

(***************************************************************************)
(* The SAN configs.                                                        *)
(***************************************************************************)
\* write_san_config(path, common_name, alt_names): open(path, "w"), write
write_san_config(path, common_name, alt_names, step) ==
    /\ fs' = [fs EXCEPT ![path] = san_content(common_name, alt_names)]
    /\ trace' = Append(trace, Event("write", path, step, 0))

WriteServerSan ==
    /\ pc = "san_server"
    /\ IF ~keep_map_get(server_san_config)
       THEN write_san_config(server_san_config, args.server_name,
                             <<args.server_name>>, "san_server")
       ELSE UNCHANGED <<fs, trace>>
    /\ pc' = "san_client"
    /\ UNCHANGED serve_vars
    /\ UNCHANGED <<args, start_fs, keep_map, idx, reply, bad_replies,
                   children, exit_status, run_no>>

WriteClientSan ==
    /\ pc = "san_client"
    /\ IF ~keep_map_get(client_san_config)
       THEN write_san_config(client_san_config, args.client_name,
                             <<args.client_name>> \o client_alt_names,
                             "san_client")
       ELSE UNCHANGED <<fs, trace>>
    /\ pc' = "ca_key"
    /\ UNCHANGED serve_vars
    /\ UNCHANGED <<args, start_fs, keep_map, idx, reply, bad_replies,
                   children, exit_status, run_no>>

(***************************************************************************)
(* openssl, as far as the script depends on it.  A key is identified by    *)
(* the step and the run that generated it; every generated file carries    *)
(* the run that generated it (keys, serial numbers and validity dates are  *)
(* fresh each time).  Each operator gives the file system after a          *)
(* successful invocation, and whether the invocation can succeed at all.   *)
(***************************************************************************)
is_kind(p, kind) == fs[p].kind = kind

\* openssl genpkey -algorithm RSA -out <out>
genpkey(out, step) ==
    [can |-> TRUE,
     fs |-> [fs EXCEPT ![out] = [kind |-> "key", id |-> <<step, run_no>>]]]

\* openssl req -x509 -new -nodes -key <key> -out <out> -subj /CN=<cn>
req_x509(key, out, cn) ==
    IF is_kind(key, "key")
    THEN [can |-> TRUE,
          fs |-> [fs EXCEPT ![out] =
                     [kind |-> "cert", cn |-> cn, pub |-> fs[key].id,
                      signer |-> fs[key].id, dns |-> <<>>, gen |-> run_no]]]
    ELSE [can |-> FALSE, fs |-> fs]

\* openssl req -new -key <key> -out <out> -config <config>
req_new(key, out, config) ==
    IF is_kind(key, "key") /\ is_kind(config, "san")
    THEN [can |-> TRUE,
          fs |-> [fs EXCEPT ![out] =
                     [kind |-> "csr", cn |-> fs[config].cn,
                      pub |-> fs[key].id, dns |-> fs[config].dns,
                      gen |-> run_no]]]
    ELSE [can |-> FALSE, fs |-> fs]

\* the serial file openssl keeps beside the CA certificate (-CAcreateserial)
serial_path(ca_cert) == join(ca_cert[1], "ca.srl")

\* faulty variant: the command line signs the request with its own key (-signkey)
\* instead of the CA's
x509_req_self_signed(csr, ca_cert, ca_key, out, extfile) ==
    IF is_kind(csr, "csr") /\ is_kind(extfile, "san")
    THEN [can |-> TRUE,
          fs |-> [fs EXCEPT
                     ![out] = [kind |-> "cert", cn |-> fs[csr].cn,
                               pub |-> fs[csr].pub,
                               signer |-> fs[csr].pub,
                               dns |-> fs[extfile].dns, gen |-> run_no]]]
    ELSE [can |-> FALSE, fs |-> fs]

\* openssl x509 -req -in <csr> -CA <ca_cert> -CAkey <ca_key> -CAcreateserial
\*   -out <out> -extfile <extfile> -extensions req_ext
\* openssl refuses a CA key that does not match the CA certificate.
x509_req(csr, ca_cert, ca_key, out, extfile) ==
    IF /\ is_kind(csr, "csr") /\ is_kind(ca_cert, "cert")
       /\ is_kind(ca_key, "key") /\ is_kind(extfile, "san")
       /\ fs[ca_cert].pub = fs[ca_key].id
    THEN [can |-> TRUE,
          fs |-> [fs EXCEPT
                     ![serial_path(ca_cert)] = [kind |-> "srl"],
                     ![out] = [kind |-> "cert", cn |-> fs[csr].cn,
                               pub |-> fs[csr].pub,
                               signer |-> fs[ca_key].id,
                               dns |-> fs[extfile].dns, gen |-> run_no]]]
    ELSE [can |-> FALSE, fs |-> fs]

\* openssl pkcs12 -export -out <out> -inkey <key> -in <cert>
\* openssl refuses a certificate that does not match the private key.
pkcs12(key, cert, out) ==
    IF /\ is_kind(key, "key") /\ is_kind(cert, "cert")
       /\ fs[cert].pub = fs[key].id
    THEN [can |-> TRUE,
          fs |-> [fs EXCEPT ![out] =
                     [kind |-> "p12", key |-> fs[key].id,
                      cert |-> fs[cert], gen |-> run_no]]]
    ELSE [can |-> FALSE, fs |-> fs]

(***************************************************************************)
(* The generation pipeline of main().                                      *)
(***************************************************************************)
Steps == <<"ca_key", "ca_cert", "server_key", "server_csr", "server_cert",
           "client_key", "client_csr", "client_cert", "client_p12">>

step_no(step) == CHOOSE k \in 1..Len(Steps) : Steps[k] = step

\* faulty variant: the client key is generated before the server certificate
next_pc_client_key_early(step) ==
    CASE step = "server_csr" -> "client_key"
      [] step = "client_key" -> "server_cert"
      [] step = "server_cert" -> "client_csr"
      [] step = "client_p12" -> "done"
      [] OTHER -> Steps[step_no(step) + 1]

\* the statement that follows a generation step in main()
next_pc(step) ==
    IF step_no(step) = Len(Steps) THEN "done" ELSE Steps[step_no(step) + 1]

\* the output path of each generation step
out_path(step) == files[step_no(step)]

\* the command line main() hands to run() at each step
command(step) ==
    CASE step = "ca_key" -> genpkey(ca_key_path, step)
      [] step = "ca_cert" -> req_x509(ca_key_path, ca_cert_path, args.ca_name)
      [] step = "server_key" -> genpkey(server_key_path, step)
      [] step = "server_csr" ->
            req_new(server_key_path, server_csr_path, server_san_config)
      [] step = "server_cert" ->
            x509_req(server_csr_path, ca_cert_path, ca_key_path,
                     server_cert_path, server_san_config)
      [] step = "client_key" -> genpkey(client_key_path, step)
      [] step = "client_csr" ->
            req_new(client_key_path, client_csr_path, client_san_config)
      [] step = "client_cert" ->
            x509_req(client_csr_path, ca_cert_path, ca_key_path,
                     client_cert_path, client_san_config)
      [] step = "client_p12" ->
            pkcs12(client_key_path, client_cert_path, client_p12_path)

\* where main() is while subprocess.run() has not returned
blocked_in_run(step) == "run"

\* main(): "if not keep_map.get(path, False): run([...]) else: skip"
\* run(): print the command and start the subprocess
Generate(step) ==
    /\ pc = step
    /\ IF ~keep_map_get(out_path(step))
       THEN /\ children' = children \cup {step}
            /\ trace' = Append(trace, Event("spawn", out_path(step), step, 0))
            /\ pc' = blocked_in_run(step)
       ELSE /\ pc' = next_pc(step)
            /\ UNCHANGED <<children, trace>>
    /\ UNCHANGED serve_vars
    /\ UNCHANGED <<args, fs, start_fs, keep_map, idx, reply, bad_replies,
                   exit_status, run_no>>

GenCaKey == Generate("ca_key")
GenCaCert == Generate("ca_cert")
GenServerKey == Generate("server_key")
GenServerCsr == Generate("server_csr")
GenServerCert == Generate("server_cert")
GenClientKey == Generate("client_key")
GenClientCsr == Generate("client_csr")
GenClientCert == Generate("client_cert")
GenClientP12 == Generate("client_p12")

\* the exit codes the subprocess of a step can end with
returncodes(step) ==
    IF command(step).can THEN 0..MaxExitCode ELSE 1..MaxExitCode

\* faulty variant: sys.exit(1) whatever the subprocess returned
on_failure_exit_one(step, rc) == [pc |-> "exited", exit_status |-> <<1>>]

\* run(): what the script does when check=True raises CalledProcessError
on_failure(step, rc) == [pc |-> "exited", exit_status |-> <<rc>>]

\* run(): subprocess.run(cmd, check=True) returns normally
RunReturns ==
    /\ pc = "run"
    /\ \E step \in children :
         /\ 0 \in returncodes(step)
         /\ fs' = command(step).fs
         /\ children' = children \ {step}
         /\ trace' = Append(trace, Event("write", out_path(step), step, 0))
         /\ pc' = next_pc(step)
    /\ UNCHANGED serve_vars
    /\ UNCHANGED <<args, start_fs, keep_map, idx, reply, bad_replies,
                   exit_status, run_no>>

\* run(): the subprocess exits non-zero; the message is printed and
\* sys.exit(e.returncode) ends the script.  A failing openssl is taken to
\* leave its output path as it found it.
RunFails ==
    /\ pc = "run"
    /\ \E step \in children :
         \E rc \in returncodes(step) \ {0} :
            /\ children' = children \ {step}
            /\ trace' = Append(trace, Event("failed", out_path(step), step, rc))
            /\ pc' = on_failure(step, rc).pc
            /\ exit_status' = on_failure(step, rc).exit_status
    /\ UNCHANGED serve_vars
    /\ UNCHANGED <<args, fs, start_fs, keep_map, idx, reply, bad_replies,
                   run_no>>

\* main() falls off its end: the interpreter exits with code 0
Finish ==
    /\ pc = "done"
    /\ exit_status = <<>>
    /\ exit_status' = <<0>>
    /\ UNCHANGED serve_vars
    /\ UNCHANGED <<args, fs, start_fs, keep_map, pc, idx, reply, bad_replies,
                   children, trace, run_no>>

\* the operator invokes the generator again with the same arguments
RunAgain ==
    /\ exit_status # <<>>
    /\ run_no = "first"
    /\ run_no' = "second"
    /\ start_fs' = fs
    /\ keep_map' = [p \in {} |-> FALSE]
    /\ pc' = "prompt"
    /\ idx' = 1
    /\ exit_status' = <<>>
    /\ trace' = <<>>
    /\ UNCHANGED serve_vars
    /\ UNCHANGED <<args, fs, reply, bad_replies, children>>

(***************************************************************************)
(* Specification of the generator: two invocations, the first against      *)
(* empty output directories.                                               *)
(***************************************************************************)
\* names are strings; the defaults MyCA, MyServer, MyClient are abbreviated
DefaultArgs ==
    [ca_dir |-> "ca", server_dir |-> "server", client_dir |-> "client",
     ca_name |-> <<"A">>, server_name |-> <<"s">>, client_name |-> <<"c">>,
     ca_key |-> "ca.key", ca_cert |-> "ca.crt",
     server_key |-> "server.key", server_csr |-> "server.csr",
     server_cert |-> "server.crt", client_key |-> "client.key",
     client_csr |-> "client.csr", client_cert |-> "client.crt",
     client_alt_names |-> <<>>]

\* the command lines explored: --client-dir may name the server directory
ArgsExplored ==
    {[DefaultArgs EXCEPT !.client_dir = d, !.client_alt_names = a] :
        d \in {"client", "server"},
        a \in { <<>>, <<"a", ",", " ", "b">> }}

ServeIdle ==
    /\ serve_args = [password |-> <<>>, file |-> "file"]
    /\ served_exists = FALSE
    /\ requests = 0
    /\ request = [password |-> <<>>, existed |-> FALSE]
    /\ response = "none"

GenStart ==
    /\ fs = [p \in Paths |-> NoFile]
    /\ start_fs = fs
    /\ keep_map = [p \in {} |-> FALSE]
    /\ pc = "prompt"
    /\ idx = 1
    /\ reply = <<>>
    /\ bad_replies = 0
    /\ children = {}
    /\ exit_status = <<>>
    /\ trace = <<>>
    /\ run_no = "first"

Init ==
    /\ args \in ArgsExplored
    /\ GenStart
    /\ ServeIdle

Next ==
    \/ LoopAbsent
    \/ AskCleanInput
    \/ AskCleanRemoved
    \/ AskCleanRemoveRaises
    \/ AskCleanRemoveFailed
    \/ AskCleanKept
    \/ AskCleanAgain
    \/ WriteServerSan
    \/ WriteClientSan
    \/ GenCaKey
    \/ GenCaCert
    \/ GenServerKey
    \/ GenServerCsr
    \/ GenServerCert
    \/ GenClientKey
    \/ GenClientCsr
    \/ GenClientCert
    \/ GenClientP12
    \/ RunReturns
    \/ RunFails
    \/ Finish
    \/ RunAgain

Spec == Init /\ [][Next]_vars

(***************************************************************************)
(* Specification of the SAN handling: one invocation against empty output  *)
(* directories in which every openssl step succeeds, for every             *)
(* --client-alt-names string up to MaxAltLen characters.                   *)
(***************************************************************************)
AltAlphabet == {"a", "c", ",", " ", "\t"}

ArgsSan ==
    {[DefaultArgs EXCEPT !.client_name = n, !.client_alt_names = a] :
        n \in { <<"c">>, <<"a">> }, a \in Str(MaxAltLen, AltAlphabet)}

InitSan ==
    /\ args \in ArgsSan
    /\ GenStart
    /\ ServeIdle

NextSan ==
    \/ LoopAbsent
    \/ WriteServerSan
    \/ WriteClientSan
    \/ GenCaKey
    \/ GenCaCert
    \/ GenServerKey
    \/ GenServerCsr
    \/ GenServerCert
    \/ GenClientKey
    \/ GenClientCsr
    \/ GenClientCert
    \/ GenClientP12
    \/ RunReturns
    \/ Finish

SpecSan == InitSan /\ [][NextSan]_vars

(***************************************************************************)
(* serve_file.py.                                                          *)
(***************************************************************************)
PasswordAlphabet == {"s", "S", " "}
Passwords == Str(MaxPasswordLen, PasswordAlphabet)

\* faulty variant: the comparison ignores case
check_password_ignoring_case(password) ==
    lower(password) = lower(serve_args.password)

\* check_password(password)
check_password(password) == password = serve_args.password

\* download_file(password)
download_file(password) ==
    IF ~check_password(password) THEN "Invalid password"
    ELSE IF ~served_exists THEN "File not found"
    ELSE serve_args.file

\* one form submission: gradio calls download_file with the text typed
Download ==
    /\ requests < MaxRequests
    /\ \E candidate \in Passwords :
         /\ request' = [password |-> candidate, existed |-> served_exists]
         /\ response' = download_file(candidate)
    /\ requests' = requests + 1
    /\ UNCHANGED <<serve_args, served_exists>>
    /\ UNCHANGED gen_vars

\* somebody creates the configured file
FileCreated ==
    /\ ~served_exists
    /\ served_exists' = TRUE
    /\ UNCHANGED <<serve_args, requests, request, response>>
    /\ UNCHANGED gen_vars

\* somebody deletes the configured file
FileDeleted ==
    /\ served_exists
    /\ served_exists' = FALSE
    /\ UNCHANGED <<serve_args, requests, request, response>>
    /\ UNCHANGED gen_vars

InitServe ==
    /\ args = DefaultArgs
    /\ GenStart
    /\ serve_args \in [password : Passwords, file : {"file"}]
    /\ served_exists \in BOOLEAN
    /\ requests = 0
    /\ request = [password |-> <<>>, existed |-> FALSE]
    /\ response = "none"

NextServe == Download \/ FileCreated \/ FileDeleted

SpecServe == InitServe /\ [][NextServe]_vars

(***************************************************************************)
(* Vocabulary of the properties.                                           *)
(***************************************************************************)
\* the statements of main() after the prompt loop, in program order
Positions == <<"san_server", "san_client">> \o Steps \o <<"done">>

\* the statement that creates files[i]
StepOf(i) == Positions[IF i <= Len(Steps) THEN i + 2 ELSE i - Len(Steps)]

Rank(position) ==
    IF \E k \in DOMAIN Positions : Positions[k] = position
    THEN CHOOSE k \in DOMAIN Positions : Positions[k] = position
    ELSE 0

\* how far the current run has come: the rank of the statement it is at, or
\* was at when it ended
Current ==
    IF pc \in {"run", "exited"} THEN Rank(trace[Len(trace)].step) ELSE Rank(pc)

\* the run has gone past the statement that creates files[i]
Passed(i) == Current > Rank(StepOf(i))

ExistedAtStart(p) == start_fs[p] # NoFile
Removed(p) ==
    \E k \in DOMAIN trace : trace[k].ev = "remove" /\ trace[k].path = p
Decisions(p) ==
    {k \in DOMAIN trace : trace[k].ev \in {"keep", "remove"} /\ trace[k].path = p}
\* the statement creating files[i] was executed in this run
Executed(i) ==
    \E k \in DOMAIN trace :
        trace[k].step = StepOf(i) /\ trace[k].ev \in {"spawn", "write"}
Spawns == {k \in DOMAIN trace : trace[k].ev = "spawn"}
Failures == {k \in DOMAIN trace : trace[k].ev = "failed"}
Range(f) == {f[k] : k \in DOMAIN f}

\* the first invocation, against empty directories, ran to its end
FirstRunSucceeded == run_no = "second" /\ start_fs[client_p12_path] # NoFile
SecondRunSucceeded == run_no = "second" /\ exit_status = <<0>>

(***************************************************************************)
(* C1: an artifact that exists when the run starts is left alone unless    *)
(* the operator confirms its removal: the first thing that ever happens to *)
(* it in a run is its removal by ask_clean, at its own prompt, after a     *)
(* y/yes reply.  Hence a declined artifact is never written or removed and *)
(* has its original content when the run ends, however it ends.            *)
(***************************************************************************)
C1_DeclinedArtifactUntouched ==
    [][\A i \in 1..Len(files) :
          (/\ run_no' = run_no
           /\ ExistedAtStart(files[i])
           /\ fs[files[i]] = start_fs[files[i]]
           /\ fs'[files[i]] # fs[files[i]])
          => (/\ pc = "ask_clean"
              /\ is_yes(reply)
              /\ files[idx] = files[i]
              /\ fs'[files[i]] = NoFile)]_vars

\* a second run has ended in which one artifact was declined and is intact
\* while another one was removed and regenerated
C1_Witness ==
    /\ run_no = "second"
    /\ exit_status # <<>>
    /\ \E i, j \in 1..Len(files) :
          /\ ExistedAtStart(files[i])
          /\ keep_map_get(files[i])
          /\ ~Removed(files[i])
          /\ fs[files[i]] = start_fs[files[i]]
          /\ ExistedAtStart(files[j])
          /\ Removed(files[j])
          /\ exists(files[j])

(***************************************************************************)
(* C2: a failing openssl invocation is the last thing the run does: the    *)
(* script exits at once with the invocation's exit code and leaves the     *)
(* file system as the failure found it; a run without a failing invocation *)
(* can only end at the end of main(), with exit code 0, and a run that has *)
(* left the prompt loop and has not ended can always take a step.          *)
(***************************************************************************)
C2_ExitCodeMirrorsFirstFailure ==
    /\ [](/\ \A k \in Failures :
               /\ k = Len(trace)
               /\ trace[k].rc # 0
               /\ pc = "exited"
               /\ exit_status = <<trace[k].rc>>
          /\ (exit_status # <<>> /\ Failures = {})
                => (exit_status = <<0>> /\ pc = "done")
          /\ (exit_status = <<>> /\ Current > 0) => ENABLED Next)
    /\ [][(run_no' = run_no /\ pc' = "exited") => fs' = fs]_vars

\* a second run removed files, regenerated some and then died with the
\* largest exit code
C2_Witness ==
    /\ run_no = "second"
    /\ pc = "exited"
    /\ exit_status = <<MaxExitCode>>
    /\ \E k \in DOMAIN trace : trace[k].ev = "remove"
    /\ \E k \in DOMAIN trace : trace[k].ev = "write" /\ trace[k].step \in Range(Steps)
    /\ \E i \in 1..Len(files) : ExistedAtStart(files[i]) /\ ~exists(files[i])

(***************************************************************************)
(* C3: the openssl steps of a run are started one at a time, each after    *)
(* the previous one has returned, in the order of Steps, none twice; and a *)
(* CSR step starts only after each SAN config was written or kept.         *)
(***************************************************************************)
C3_StepsInFixedOrder ==
    /\ Cardinality(children) <= 1
    /\ children # {} =>
          /\ pc = "run"
          /\ trace[Len(trace)].ev = "spawn"
          /\ children = {trace[Len(trace)].step}
    /\ \A j, k \in Spawns :
          j < k => step_no(trace[j].step) < step_no(trace[k].step)
    /\ \A k \in Spawns :
          k < Len(trace) =>
             /\ trace[k + 1].ev \in {"write", "failed"}
             /\ trace[k + 1].step = trace[k].step
    /\ \A k \in DOMAIN trace :
          (trace[k].ev \in {"write", "failed"} /\ trace[k].step \in Range(Steps))
             => (k - 1 \in Spawns /\ trace[k - 1].step = trace[k].step)
    /\ \A k \in Spawns :
          trace[k].step \in {"server_csr", "client_csr"} =>
             \A i \in (Len(Steps) + 1)..Len(files) :
                \/ keep_map_get(files[i])
                \/ \E j \in 1..(k - 1) :
                      trace[j].ev = "write" /\ trace[j].step = StepOf(i)

\* a second run that kept some artifacts and regenerated others has started
\* its last step after running an earlier one
C3_Witness ==
    /\ run_no = "second"
    /\ pc = "run"
    /\ children = {"client_p12"}
    /\ Cardinality(Spawns) >= 3
    /\ Cardinality(Spawns) < Len(Steps)

(***************************************************************************)
(* C4: chaining of the leaf certificates after two successful runs.        *)
(***************************************************************************)
\* the certificate at path was signed by the key the CA certificate on
\* disk certifies
ChainsToCa(path) ==
    /\ is_kind(path, "cert")
    /\ is_kind(ca_cert_path, "cert")
    /\ fs[path].signer = fs[ca_cert_path].pub

LeafCerts == {server_cert_path, client_cert_path}

\* the second run kept the leaf certificate and replaced both the CA key
\* and the CA certificate
KeptUnderNewCa(path) ==
    /\ keep_map_get(path)
    /\ ~keep_map_get(ca_key_path)
    /\ ~keep_map_get(ca_cert_path)

\* C4 as claimed: after two successful runs from empty directories, however
\* the second run's prompts were answered, both leaf certificates chain to
\* the CA certificate on disk.
C4_Original_AnyAnswersChain ==
    (FirstRunSucceeded /\ SecondRunSucceeded)
       => \A path \in LeafCerts : ChainsToCa(path)

\* C4 as amended: after two successful runs from empty directories, a leaf
\* certificate chains to the CA certificate on disk unless the second run
\* kept that leaf certificate while replacing both the CA key and the CA
\* certificate.
C4_ChainUnlessKeptUnderNewCa ==
    (FirstRunSucceeded /\ SecondRunSucceeded)
       => \A path \in LeafCerts : ChainsToCa(path) \/ KeptUnderNewCa(path)

\* two successful runs, the second of which replaced the CA key, the CA
\* certificate and the server certificate and kept the server key
C4_Witness ==
    /\ FirstRunSucceeded
    /\ SecondRunSucceeded
    /\ Removed(ca_key_path)
    /\ Removed(ca_cert_path)
    /\ Removed(server_cert_path)
    /\ keep_map_get(server_key_path)
    /\ fs[server_cert_path].signer # start_fs[server_cert_path].signer
    /\ \A path \in LeafCerts : ChainsToCa(path)

\* two strings are equal, character by character
SameString(a, b) == Len(a) = Len(b) /\ \A k \in 1..Len(a) : a[k] = b[k]

(***************************************************************************)
(* C5: the file server.  Every response is the function of the submitted   *)
(* candidate and of the file's existence at that moment that the three     *)
(* cases spell out, whatever was submitted before; check_password accepts  *)
(* exactly the strings equal to the password, character by character.      *)
(***************************************************************************)
C5_DownloadDependsOnRequestOnly ==
    /\ requests > 0 =>
          /\ ~SameString(request.password, serve_args.password)
                => response = "Invalid password"
          /\ (SameString(request.password, serve_args.password)
                 /\ ~request.existed) => response = "File not found"
          /\ (SameString(request.password, serve_args.password)
                 /\ request.existed) => response = serve_args.file
    /\ \A candidate \in Passwords :
          check_password(candidate)
             <=> SameString(candidate, serve_args.password)

\* a wrong password that differs from the right one only by case was
\* refused, after an earlier submission, while the file exists
C5_Witness ==
    /\ requests = MaxRequests
    /\ request.existed
    /\ response = "Invalid password"
    /\ serve_args.password # <<>>
    /\ lower(request.password) = lower(serve_args.password)

(***************************************************************************)
(* C6: the DNS names of the client SAN config.                             *)
(***************************************************************************)
\* the trimmed, non-empty entries of a comma-separated string, as a set:
\* the substrings that begin and end with a character that is neither a
\* comma nor whitespace, hold no comma, and are separated from the nearest
\* comma (or end of the string) on each side by whitespace only
AltEntries(s) ==
    LET Blank(a, b) == \A k \in a..b : s[k] \in Whitespace
        Solid(k) == s[k] \notin Whitespace \cup {","}
        Entry(a, b) ==
            /\ a <= b
            /\ Solid(a) /\ Solid(b)
            /\ \A k \in a..b : s[k] # ","
            /\ \E i \in 1..a : (i = 1 \/ s[i - 1] = ",") /\ Blank(i, a - 1)
            /\ \E j \in b..Len(s) :
                  (j = Len(s) \/ s[j + 1] = ",") /\ Blank(b + 1, j)
    IN  {SubSeq(s, ab[1], ab[2]) :
            ab \in {xy \in (1..Len(s)) \X (1..Len(s)) : Entry(xy[1], xy[2])}}

ExpectedClientNames == {args.client_name} \cup AltEntries(args.client_alt_names)

\* C6: once the client SAN config is written its DNS names are, as a set,
\* the client name and the trimmed non-empty entries of --client-alt-names;
\* the client CSR and the client certificate carry the same set.
C6_ClientSanNames ==
    /\ Passed(Len(files)) =>
          Range(fs[client_san_config].dns) = ExpectedClientNames
    /\ exists(client_csr_path) =>
          Range(fs[client_csr_path].dns) = ExpectedClientNames
    /\ exists(client_cert_path) =>
          Range(fs[client_cert_path].dns) = ExpectedClientNames

\* a finished run whose --client-alt-names held a blank-padded entry, an
\* empty entry and a repeated name
C6_Witness ==
    /\ exit_status = <<0>>
    /\ \E k \in DOMAIN args.client_alt_names :
          args.client_alt_names[k] \in Whitespace
    /\ Len(split(args.client_alt_names)) > Len(client_alt_names)
    /\ Len(fs[client_cert_path].dns) > Cardinality(ExpectedClientNames)

(***************************************************************************)
(* C7: what a run leaves of the artifacts it found.                        *)
(***************************************************************************)
\* files[i] has the content it had when the run started
Preserved(i) == fs[files[i]] = start_fs[files[i]]

\* files[i] was removed at the prompt and later written by its own step
Regenerated(i) ==
    \E j, k \in DOMAIN trace :
        /\ j < k
        /\ trace[j].ev = "remove" /\ trace[j].path = files[i]
        /\ trace[k].ev = "write" /\ trace[k].path = files[i]
        /\ trace[k].step = StepOf(i)

PreservedOrRegenerated ==
    \A i \in 1..Len(files) :
        ExistedAtStart(files[i]) =>
            /\ Preserved(i) \/ Regenerated(i)
            /\ ~(Preserved(i) /\ Regenerated(i))

C8_OneDecisionPerArtifact ==
    /\ \A j, k \in DOMAIN trace :
          (trace[j].ev \in {"keep", "remove"}
              /\ trace[k].ev \in {"write", "spawn", "failed"}) => j < k
    /\ Current > 0 =>
          \A i \in 1..Len(files) :
              /\ files[i] \in DOMAIN keep_map
              /\ ExistedAtStart(files[i])
                    => Cardinality(Decisions(files[i])) = 1
              /\ ~ExistedAtStart(files[i])
                    => (Decisions(files[i]) = {} /\ ~keep_map[files[i]])

(***************************************************************************)
(* C9: once a run has gone past the statement that creates an artifact,    *)
(* that statement was executed iff the artifact is not recorded as kept;   *)
(* an artifact is recorded as kept iff it existed at the start and was not *)
(* removed (declined, or os.remove raised); and a successful run that kept *)
(* the server key and replaced the server CSR and certificate leaves the   *)
(* key as it was and a new CSR and certificate for that key.               *)
(***************************************************************************)
C9_GeneratedIffNotKept ==
    /\ \A i \in 1..Len(files) :
          Passed(i) => (Executed(i) <=> ~keep_map_get(files[i]))
    /\ Current > 0 =>
          \A i \in 1..Len(files) :
              keep_map_get(files[i])
                 <=> (ExistedAtStart(files[i]) /\ ~Removed(files[i]))
    /\ (/\ exit_status = <<0>>
        /\ keep_map_get(server_key_path)
        /\ ~keep_map_get(server_csr_path)
        /\ ~keep_map_get(server_cert_path))
       => (/\ fs[server_key_path] = start_fs[server_key_path]
           /\ fs[server_csr_path].gen = run_no
           /\ fs[server_csr_path].pub = fs[server_key_path].id
           /\ fs[server_cert_path].gen = run_no
           /\ fs[server_cert_path].pub = fs[server_key_path].id)

\* a successful second run that kept the server key and the CA, and
\* removed and regenerated the server CSR and the server certificate
C9_Witness ==
    /\ SecondRunSucceeded
    /\ keep_map_get(server_key_path)
    /\ keep_map_get(ca_key_path)
    /\ keep_map_get(ca_cert_path)
    /\ Removed(server_csr_path)
    /\ Removed(server_cert_path)
    /\ fs[server_csr_path].gen = "second"
    /\ fs[server_cert_path].gen = "second"
    /\ fs[server_csr_path].pub = start_fs[server_key_path].id

\* a descriptor, or a file derived from it, carries the server's names
ServerSan(content) ==
    content.cn = args.server_name /\ content.dns = <<args.server_name>>

WrittenBy(step) ==
    \E k \in DOMAIN trace : trace[k].ev = "write" /\ trace[k].step = step

(***************************************************************************)
(* C10: whenever the server CSR step or the server certificate step has    *)
(* run in this run and the server SAN config was not kept, the SAN config  *)
(* it read was the server's: CN = server name, DNS names = <<server name>>;*)
(* and after both SAN writes the server SAN config path still holds the    *)
(* server's descriptor.                                                    *)
(***************************************************************************)
C10_ServerStepsReadServerSan ==
    ~keep_map_get(server_san_config) =>
        /\ Current > Rank("san_client") => ServerSan(fs[server_san_config])
        /\ WrittenBy("server_csr") => ServerSan(fs[server_csr_path])
        /\ WrittenBy("server_cert") => ServerSan(fs[server_cert_path])

====
